---- MODULE Spec2Model ----
(***************************************************************************)
(* Model of libhotel: hotel::coro::generator<T> (include/hotel/coro/       *)
(* generator.hpp) and hotel::pid_controller (include/hotel/pid.hpp).       *)
(*                                                                         *)
(* One controller object, a pool of generator objects (slots that are      *)
(* constructed, moved, assigned and destroyed), a pool of coroutine frames *)
(* created by run(), one iterator object (the one a for-each loop keeps),  *)
(* and the external clock.  The feedback function and the settled          *)
(* predicate are the caller's: the feedback function returns any sample of *)
(* Samples or raises, the predicate is "error is in SettledErrors" or      *)
(* raises.                                                                 *)
(*                                                                         *)
(* Real arithmetic (float gains, double samples) is modelled exactly, as   *)
(* rationals num/den; the conversion to the output type truncates toward   *)
(* zero as static_cast<std::int32_t> does.                                 *)
(***************************************************************************)
EXTENDS Integers, Sequences, FiniteSets, TLC

\* ---------------------------------------------------------------- bounds
\* feedback_fn() is invoked at most MaxCalls times in a behaviour
MaxCalls == 2
\* the clock runs from 0 to MaxTime milliseconds
MaxTime == 2
\* a captured exception is rethrown at most MaxRaised times in a behaviour
MaxRaised == 2

\* the converging feedback moves ConvStep toward the setpoint at each sample
ConvStep == 5

\* generator objects the consumer holds
Gens == {1, 2}
\* the generator object a consumer's loop holds
Loop == {1}
\* values the feedback function returns
Samples == {0, 9, 10}
\* the setpoint given to the constructor, the setpoints given to target()
InitialSetpoint == {10}
Setpoints == {9, 10}
\* errors the caller's settled predicate accepts: |error| < 2
SettledErrors == {-1, 0, 1}
\* the gains <<Kp_t, Ki_t, Kd_t>>, each a ratio <<num, den>>
GainSets ==
    { << <<1, 1>>, <<0, 1>>, <<0, 1>> >>,
      << <<1, 2>>, <<1, 1>>, <<2, 1>> >> }
\* _target_t: double (motor_position_controller, ...) or std::int32_t
\* (motor_torque_controller)
TargetTypes == {"double", "int32"}

\* the range of output_t, std::int32_t
INT32_MAX == 2147483647
INT32_MIN == (-INT32_MAX) - 1
\* what a conversion of a non-finite or out-of-range real to int32 gives
\* (x86 cvttsd2si: INT32_MIN; ARM vcvt: saturation, 0 for NaN)
UBValues == {INT32_MIN, INT32_MAX}

\* the coroutine frames run() can create, in the order it creates them
Frames == {1, 2}
nullptr == 0

VARIABLES
    Kp, Ki, Kd,          \* the gains, <<num, den>>
    target_t,            \* "double" or "int32"
    current_setpoint,
    error_accumulator,
    last_error,
    last_iteration,
    clock,               \* pros::Clock::now(), in milliseconds
    fbCalls,             \* invocations of feedback_fn so far
    stCalls,             \* invocations of is_settled so far
    alive,               \* alive[g]: generator object g exists
    coro,                \* coro[g]: the handle generator g holds
    frames,              \* the coroutine frames and their promises
    nframes,             \* frames created so far
    iter,                \* the iterator object: whether it exists, the handle it holds
    crashed,             \* the program was terminated by a fault
    history,             \* errors of the yielding pulls since the last reset
    reset,               \* what reset the history last
    lastOp               \* the operation just performed and its outcome

ctrl == <<current_setpoint, error_accumulator, last_error, last_iteration>>
config == <<Kp, Ki, Kd, target_t>>
vars == <<Kp, Ki, Kd, target_t, current_setpoint, error_accumulator, last_error,
          last_iteration, clock, fbCalls, stCalls, alive, coro, frames, nframes,
          iter, crashed, history, reset, lastOp>>

\* ---------------------------------------------------------- arithmetic
\* C++ integer division and static_cast<int>: truncation toward zero (d > 0)
TruncDiv(n, d) ==
    IF n >= 0 THEN n \div d ELSE -((-n) \div d)

\* (last_error - error) / dT as the code's types compute it: a real quotient
\* <<num, den>> for double, an integer quotient for std::int32_t
derivative(le, error, dT) ==
    IF target_t = "int32" THEN <<TruncDiv(le - error, dT), 1>>
    ELSE <<le - error, dT>>

\* static_cast<output_t>(Kp*error + Ki*error_accumulator*dT + Kd*deriv),
\* deriv a rational <<num, den>>
pid_value(error, acc, dT, deriv) ==
    LET den == Kp[2] * Ki[2] * Kd[2] * deriv[2]
        num == Kp[1] * error * Ki[2] * Kd[2] * deriv[2]
               + Ki[1] * acc * dT * Kp[2] * Kd[2] * deriv[2]
               + Kd[1] * deriv[1] * Kp[2] * Ki[2]
    IN  TruncDiv(num, den)

is_settled(error) == error \in SettledErrors

\* pid_controller(ffn, sfn, setpoint) at time now
Construct(setpoint, now) ==
    [current_setpoint |-> setpoint, error_accumulator |-> 0,
     last_error |-> 0, last_iteration |-> now]

\* ------------------------------------------------------- coroutine body
\* What one resumption of run()'s body can do, from the controller's
\* current state: the set of outcomes, each the new controller state, the
\* new invocation counts and how the body stopped (k):
\*   "yield"  co_yield value        "return" settled, the loop broke
\*   "throw"  feedback_fn or is_settled raised
\*   "div0_crash"  integer division by dT = 0 trapped
Outcome(k, acc, le, li, fb, sc, val, sampled) ==
    [k |-> k, acc |-> acc, le |-> le, li |-> li, fb |-> fb, sc |-> sc,
     val |-> val, sampled |-> sampled]

\* line 117 with dT = 0.  double: the quotient is +-inf or NaN, so is the sum,
\* and its conversion to int32 is undefined.  int32: the integer division is
\* undefined: a trap, or a quotient the runtime's division routine returns.
zero_dT_outcomes(error, acc, now) ==
    IF target_t = "int32"
    THEN {Outcome("div0_crash", acc, last_error, last_iteration,
                  fbCalls + 1, stCalls + 1, 0, TRUE)}
         \cup {Outcome("yield", acc, error, now, fbCalls + 1, stCalls + 1, v, TRUE) :
                 v \in UBValues \cup {pid_value(error, acc, 0, <<0, 1>>)}}
    ELSE {Outcome("yield", acc, error, now, fbCalls + 1, stCalls + 1, v, TRUE) :
                 v \in UBValues}

\* a loop body that integrates only the latest error
compute_latest_only(error) ==
    LET acc == error
        now == clock
        dT  == now - last_iteration
    IN  IF dT = 0 THEN zero_dT_outcomes(error, acc, now)
        ELSE {Outcome("yield", acc, error, now, fbCalls + 1, stCalls + 1,
                      pid_value(error, acc, dT, derivative(last_error, error, dT)),
                      TRUE)}

\* lines 112-122: accumulate, read the clock, compute, store, yield
compute(error) ==
    LET acc == error_accumulator + error
        now == clock
        dT  == now - last_iteration
    IN  IF dT = 0 THEN zero_dT_outcomes(error, acc, now)
        ELSE {Outcome("yield", acc, error, now, fbCalls + 1, stCalls + 1,
                      pid_value(error, acc, dT, derivative(last_error, error, dT)),
                      TRUE)}

\* a loop body that accumulates the error before it asks the predicate
after_sample_accumulates_first(s) ==
    LET error == current_setpoint - s
    IN  {Outcome("throw", error_accumulator, last_error, last_iteration,
                 fbCalls + 1, stCalls + 1, 0, TRUE)}
        \cup (IF is_settled(error)
              THEN {Outcome("return", error_accumulator + error, last_error,
                            last_iteration, fbCalls + 1, stCalls + 1, 0, TRUE)}
              ELSE compute(error))

\* lines 106-110 for a feedback sample s: the error, then the predicate
after_sample(s) ==
    LET error == current_setpoint - s
    IN  {Outcome("throw", error_accumulator, last_error, last_iteration,
                 fbCalls + 1, stCalls + 1, 0, TRUE)}
        \cup (IF is_settled(error)
              THEN {Outcome("return", error_accumulator, last_error, last_iteration,
                            fbCalls + 1, stCalls + 1, 0, TRUE)}
              ELSE compute(error))

\* one iteration of the loop of run(), from the suspension point to the next
run_iteration ==
    {Outcome("throw", error_accumulator, last_error, last_iteration,
             fbCalls + 1, stCalls, 0, FALSE)}
    \cup UNION {after_sample(s) : s \in Samples}

\* resume() of a handle that is null, or whose frame is at its final
\* suspension point or destroyed: undefined.  The call may fault, return
\* having done nothing, or run code of the body.
undefined_resume ==
    {Outcome("ub_crash", error_accumulator, last_error, last_iteration,
             fbCalls, stCalls, 0, FALSE),
     Outcome("ub_noop", error_accumulator, last_error, last_iteration,
             fbCalls, stCalls, 0, FALSE),
     Outcome("ub_rerun", error_accumulator, last_error, last_iteration,
             fbCalls + 1, stCalls, 0, FALSE)}

Suspended(h) == h # nullptr /\ frames[h].st \in {"start", "yielded"}

\* the state of the frame h refers to
StateOf(h) == IF h = nullptr THEN "none" ELSE frames[h].st

\* std::coroutine_handle::resume()
coro_resume(h) ==
    IF Suspended(h) THEN run_iteration ELSE undefined_resume

\* std::coroutine_handle::done(): whether the frame is at its final suspend
coro_done(fr) == fr.st = "done"

\* ------------------------------------------------------------- promise
NoFrame ==
    [st |-> "none", current_value |-> 0, has_value |-> FALSE,
     exception |-> FALSE, destroyed |-> 0, raised |-> 0, misused |-> FALSE,
     samples |-> 0, yields |-> 0, by |-> "none"]

\* a promise whose initial_suspend() returns std::suspend_never
initial_suspend_never == "suspend_never"

\* initial_suspend(): the body does not start at creation
initial_suspend == "suspend_always"

\* a promise whose unhandled_exception() stores nothing
promise_after_swallows(fr, o, op) ==
    [fr EXCEPT
       !.st = IF o.k = "yield" THEN "yielded"
              ELSE IF o.k \in {"return", "throw"} THEN "done" ELSE @,
       !.current_value = IF o.k = "yield" THEN o.val ELSE @,
       !.has_value = @ \/ o.k = "yield",
       !.misused = @ \/ o.k \in {"ub_crash", "ub_noop", "ub_rerun"},
       !.samples = @ + (IF o.sampled THEN 1 ELSE 0),
       !.yields = @ + (IF o.k = "yield" THEN 1 ELSE 0),
       !.by = IF o.k \in {"return", "throw"} THEN op ELSE @]

\* the promise and frame after the body stopped with outcome o, resumed by op:
\* yield_value stores the value, unhandled_exception the exception,
\* final_suspend leaves the frame done
promise_after(fr, o, op) ==
    [fr EXCEPT
       !.st = IF o.k = "yield" THEN "yielded"
              ELSE IF o.k \in {"return", "throw"} THEN "done" ELSE @,
       !.current_value = IF o.k = "yield" THEN o.val ELSE @,
       !.has_value = @ \/ o.k = "yield",
       !.exception = @ \/ o.k = "throw",
       !.misused = @ \/ o.k \in {"ub_crash", "ub_noop", "ub_rerun"},
       !.samples = @ + (IF o.sampled THEN 1 ELSE 0),
       !.yields = @ + (IF o.k = "yield" THEN 1 ELSE 0),
       !.by = IF o.k \in {"return", "throw"} THEN op ELSE @]

\* a rethrow_if_exception() that drops the captured exception
rethrow_never(fr) == FALSE

\* rethrow_if_exception(): whether it throws
rethrow_if_exception(fr) == fr.exception

\* coroutine_handle::destroy(): the frame and its promise are freed
coro_destroy(fr) ==
    [NoFrame EXCEPT !.st = "destroyed", !.destroyed = fr.destroyed + 1,
                    !.misused = fr.misused]

\* ------------------------------------------------------------- results
Op(op, g, h, k, res, val, raised) ==
    [op |-> op, g |-> g, h |-> h, k |-> k, res |-> res, val |-> val,
     raised |-> raised]

\* what the caller of a pull sees: a value, the end of the sequence, a fault
\* of the program, or something undefined
Result(o) ==
    CASE o.k = "yield" -> "value"
      [] o.k \in {"return", "throw", "ub_noop"} -> "end"
      [] o.k \in {"div0_crash", "ub_crash"} -> "crash"
      [] OTHER -> "undefined"

\* the controller and the counters after outcome o
Apply(o) ==
    /\ error_accumulator' = o.acc
    /\ last_error' = o.le
    /\ last_iteration' = o.li
    /\ fbCalls' = o.fb
    /\ stCalls' = o.sc
    /\ crashed' = (o.k \in {"div0_crash", "ub_crash"})
    /\ history' = IF o.k = "yield" THEN Append(history, o.le) ELSE history
    /\ UNCHANGED <<config, current_setpoint, clock, reset>>

Quiet == UNCHANGED <<config, ctrl, clock, fbCalls, stCalls, crashed, history, reset>>

\* --------------------------------------------------------------- Init
Init ==
    /\ \E gs \in GainSets : Kp = gs[1] /\ Ki = gs[2] /\ Kd = gs[3]
    /\ target_t \in TargetTypes
    /\ clock = 0
    /\ \E s \in InitialSetpoint :
         LET c == Construct(s, 0)
         IN  /\ current_setpoint = c.current_setpoint
             /\ error_accumulator = c.error_accumulator
             /\ last_error = c.last_error
             /\ last_iteration = c.last_iteration
    /\ fbCalls = 0
    /\ stCalls = 0
    /\ alive = [g \in Gens |-> FALSE]
    /\ coro = [g \in Gens |-> nullptr]
    /\ frames = [f \in Frames |-> NoFrame]
    /\ nframes = 0
    /\ iter = [live |-> FALSE, coro |-> nullptr]
    /\ crashed = FALSE
    /\ history = << >>
    /\ reset = [by |-> "ctor", dirty |-> FALSE]
    /\ lastOp = Op("ctor", 0, nullptr, "none", "none", 0, FALSE)

\* ------------------------------------------------------------ ownership
\* a move constructor that leaves rhs its handle
move_ctor_copy(c) == [lhs |-> c, rhs |-> c]

\* generator(generator &&rhs): the handles of the new object and of rhs
move_ctor(c) == [lhs |-> c, rhs |-> nullptr]

\* a destructor that does not destroy the frame
generator_dtor_leak(c, frs) == frs

\* ~generator(), for an object holding handle c
generator_dtor(c, frs) ==
    IF c # nullptr THEN [frs EXCEPT ![c] = coro_destroy(@)] ELSE frs

\* a target() that keeps the accumulated error
target_keeps_accumulator(setpoint) ==
    [current_setpoint |-> setpoint, error_accumulator |-> error_accumulator,
     last_error |-> 0, last_iteration |-> clock]

\* target(setpoint): the controller's new state
target(setpoint) ==
    [current_setpoint |-> setpoint, error_accumulator |-> 0,
     last_error |-> 0, last_iteration |-> clock]

\* ------------------------------------------------------------ iterator
\* a comparison that forgets coro.done()
iterator_eq_sentinel_null_only(it) == it.coro = nullptr

\* operator==(const generator_iterator &it, generator_sentinel)
iterator_eq_sentinel(it) ==
    it.coro = nullptr \/ coro_done(frames[it.coro])

\* operator!=(const generator_iterator &it, generator_sentinel s)
iterator_ne_sentinel(it) == ~iterator_eq_sentinel(it)

\* operator==(generator_sentinel s, const generator_iterator &it)
sentinel_eq_iterator(it) == iterator_eq_sentinel(it)

\* operator!=(generator_sentinel s, const generator_iterator &it)
sentinel_ne_iterator(it) == iterator_ne_sentinel(it)

\* a value() that does not read the slot yield_value wrote
promise_value_default(fr) == 0

\* generator_promise_type::value()
promise_value(fr) == fr.current_value

\* ------------------------------------------------------------- actions
\* the clock advances by a millisecond
Tick ==
    /\ ~crashed
    /\ clock < MaxTime
    /\ clock' = clock + 1
    /\ lastOp' = Op("tick", 0, nullptr, "none", "none", 0, FALSE)
    /\ UNCHANGED <<config, ctrl, fbCalls, stCalls, alive, coro, frames, nframes,
                   iter, crashed, history, reset>>

\* a run() that starts from a clean history, as target() leaves it
Run_resets(g) ==
    /\ ~crashed
    /\ ~alive[g]
    /\ nframes + 1 \in Frames
    /\ nframes' = nframes + 1
    /\ alive' = [alive EXCEPT ![g] = TRUE]
    /\ coro' = [coro EXCEPT ![g] = nframes + 1]
    /\ frames' = [frames EXCEPT ![nframes + 1] = [NoFrame EXCEPT !.st = "start"]]
    /\ lastOp' = Op("run", g, nframes + 1, "none", "none", 0, FALSE)
    /\ error_accumulator' = 0
    /\ last_error' = 0
    /\ last_iteration' = clock
    /\ history' = << >>
    /\ UNCHANGED <<config, current_setpoint, clock, fbCalls, stCalls, crashed,
                   reset, iter>>

\* generator<output_t> g = controller.run(): a frame is created, suspended
\* at its initial suspension point, and g owns it
Run(g) ==
    /\ ~crashed
    /\ ~alive[g]
    /\ nframes + 1 \in Frames
    /\ LET h == nframes + 1
           fr == [NoFrame EXCEPT !.st = "start"]
       IN  /\ nframes' = h
           /\ alive' = [alive EXCEPT ![g] = TRUE]
           /\ coro' = [coro EXCEPT ![g] = h]
           /\ IF initial_suspend = "suspend_always"
              THEN /\ frames' = [frames EXCEPT ![h] = fr]
                   /\ lastOp' = Op("run", g, h, "none", "none", 0, FALSE)
                   /\ Quiet
              ELSE \E o \in run_iteration :
                   /\ o.fb <= MaxCalls
                   /\ Apply(o)
                   /\ frames' = [frames EXCEPT ![h] = promise_after(fr, o, "run")]
                   /\ lastOp' = Op("run", g, h, o.k, "none", o.val, FALSE)
    /\ UNCHANGED iter

\* generator<output_t> g; (the default constructor)
DefaultConstruct(g) ==
    /\ ~crashed
    /\ ~alive[g]
    /\ alive' = [alive EXCEPT ![g] = TRUE]
    /\ coro' = [coro EXCEPT ![g] = nullptr]
    /\ lastOp' = Op("default_ctor", g, nullptr, "none", "none", 0, FALSE)
    /\ Quiet
    /\ UNCHANGED <<frames, nframes, iter>>

\* generator<output_t> dst{std::move(src)};
MoveConstruct(dst, src) ==
    /\ ~crashed
    /\ ~alive[dst]
    /\ alive[src]
    /\ LET m == move_ctor(coro[src])
       IN  /\ coro' = [coro EXCEPT ![dst] = m.lhs, ![src] = m.rhs]
           /\ lastOp' = Op("move_ctor", dst, m.lhs, "none", "none", 0, FALSE)
    /\ alive' = [alive EXCEPT ![dst] = TRUE]
    /\ Quiet
    /\ UNCHANGED <<frames, nframes, iter>>

\* dst = std::move(src): the parameter `other` is move-constructed from src,
\* the handles of dst and other are swapped, and other is destroyed on return
MoveAssign(dst, src) ==
    /\ ~crashed
    /\ alive[dst]
    /\ alive[src]
    /\ LET m == move_ctor(coro[src])
           c1 == [coro EXCEPT ![src] = m.rhs]
           other == c1[dst]
       IN  /\ coro' = [c1 EXCEPT ![dst] = m.lhs]
           /\ frames' = generator_dtor(other, frames)
           /\ lastOp' = Op("assign", dst, other, StateOf(other), "none", 0, FALSE)
    /\ Quiet
    /\ UNCHANGED <<alive, nframes, iter>>

\* g goes out of scope
Destroy(g) ==
    /\ ~crashed
    /\ alive[g]
    /\ frames' = generator_dtor(coro[g], frames)
    /\ alive' = [alive EXCEPT ![g] = FALSE]
    /\ coro' = [coro EXCEPT ![g] = nullptr]
    /\ lastOp' = Op("destroy", g, coro[g], StateOf(coro[g]), "none", 0, FALSE)
    /\ Quiet
    /\ UNCHANGED <<nframes, iter>>

\* g.next()
Next_(g) ==
    /\ ~crashed
    /\ alive[g]
    /\ IF coro[g] = nullptr
       THEN /\ lastOp' = Op("next", g, nullptr, "none", "end", 0, FALSE)
            /\ Quiet
            /\ UNCHANGED frames
       ELSE \E o \in coro_resume(coro[g]) :
            /\ o.fb <= MaxCalls
            /\ Apply(o)
            /\ frames' = [frames EXCEPT ![coro[g]] = promise_after(@, o, "next")]
            /\ lastOp' = Op("next", g, coro[g], o.k, Result(o), o.val, FALSE)
    /\ UNCHANGED <<alive, coro, nframes, iter>>

\* resume through handle h, then `if (coro.done()) rethrow_if_exception()`:
\* the body of begin() and of operator++
ResumeAndRethrow(op, g, h, it) ==
    \E o \in coro_resume(h) :
       LET fr == promise_after(frames[h], o, op)
           returned == o.k \notin {"div0_crash", "ub_crash"}
           throws == returned /\ coro_done(fr) /\ rethrow_if_exception(fr)
       IN  /\ o.fb <= MaxCalls
           /\ throws => fr.raised < MaxRaised
           /\ Apply(o)
           /\ frames' = [frames EXCEPT
                           ![h] = [fr EXCEPT !.raised = @ + (IF throws THEN 1 ELSE 0)]]
           /\ iter' = IF returned /\ ~throws THEN it ELSE iter
           /\ lastOp' = Op(op, g, h, o.k, Result(o), o.val, throws)

\* it = g.begin()
Begin(g) ==
    /\ ~crashed
    /\ alive[g]
    /\ IF coro[g] = nullptr
       THEN /\ lastOp' = Op("begin", g, nullptr, "none", "end", 0, FALSE)
            /\ iter' = [live |-> TRUE, coro |-> nullptr]
            /\ Quiet
            /\ UNCHANGED frames
       ELSE ResumeAndRethrow("begin", g, coro[g], [live |-> TRUE, coro |-> coro[g]])
    /\ UNCHANGED <<alive, coro, nframes>>

\* ++it
Increment ==
    /\ ~crashed
    /\ iter.live
    /\ IF iter.coro = nullptr
       THEN \E o \in undefined_resume :
            /\ o.fb <= MaxCalls
            /\ Apply(o)
            /\ lastOp' = Op("inc", 0, nullptr, o.k, Result(o), 0, FALSE)
            /\ UNCHANGED <<frames, iter>>
       ELSE ResumeAndRethrow("inc", 0, iter.coro, iter)
    /\ UNCHANGED <<alive, coro, nframes>>

\* *it: the promise's current_value.  Before the first yield the slot is
\* uninitialized and the read gives any value; through a null handle or a
\* destroyed frame the read is undefined (a fault, or any value).
Dereference ==
    /\ ~crashed
    /\ iter.live
    /\ LET h == iter.coro
           valid == h # nullptr /\ frames[h].st \in {"start", "yielded", "done"}
       IN  \/ /\ valid
              /\ frames[h].has_value
              /\ lastOp' = Op("deref", 0, h, "read", "value",
                              promise_value(frames[h]), FALSE)
              /\ crashed' = crashed
           \/ /\ ~(valid /\ frames[h].has_value)
              /\ \E v \in UBValues :
                    lastOp' = Op("deref", 0, h, "ub_read", "undefined", v, FALSE)
              /\ crashed' = crashed
           \/ /\ ~valid
              /\ lastOp' = Op("deref", 0, h, "ub_crash", "crash", 0, FALSE)
              /\ crashed' = TRUE
    /\ UNCHANGED <<config, ctrl, clock, fbCalls, stCalls, alive, coro, frames,
                   nframes, iter, history, reset>>

\* controller.target(s)
Target(s) ==
    /\ ~crashed
    /\ LET c == target(s)
       IN  /\ current_setpoint' = c.current_setpoint
           /\ error_accumulator' = c.error_accumulator
           /\ last_error' = c.last_error
           /\ last_iteration' = c.last_iteration
    /\ history' = << >>
    /\ reset' = [by |-> "target", dirty |-> error_accumulator # 0]
    /\ lastOp' = Op("target", 0, nullptr, "none", "none", 0, FALSE)
    /\ UNCHANGED <<config, clock, fbCalls, stCalls, alive, coro, frames, nframes,
                   iter, crashed>>

\* a consumer that drives a generator with next(), retargets the controller
\* and drops the generator (to call run() again)
Next ==
    \/ Tick
    \/ \E g \in Loop : Run(g)
    \/ \E g \in Loop : Next_(g)
    \/ \E g \in Loop : Destroy(g)
    \/ \E s \in Setpoints : Target(s)

Spec == Init /\ [][Next]_vars

\* a consumer that drives a generator through begin() and operator++
NextIter ==
    \/ Tick
    \/ \E g \in Loop : Run(g)
    \/ \E g \in Loop : Begin(g)
    \/ Increment
    \/ Dereference
    \/ \E g \in Loop : Destroy(g)

SpecIter == Init /\ [][NextIter]_vars

\* a consumer that creates, moves, assigns, pulls and drops generators, of
\* one controller type
InitOwn ==
    /\ Init
    /\ target_t = "double"
    /\ Kp = <<1, 1>>

NextOwn ==
    \/ Tick
    \/ \E g \in Gens : Run(g)
    \/ \E g \in Gens : DefaultConstruct(g)
    \/ \E dst, src \in Gens : MoveConstruct(dst, src)
    \/ \E dst, src \in Gens : MoveAssign(dst, src)
    \/ \E g \in Gens : Destroy(g)
    \/ \E g \in Gens : Next_(g)

SpecOwn == InitOwn /\ [][NextOwn]_vars

\* a consumer that creates generators with run(), moves and assigns them,
\* pulls them with next() and begin(), and drops them, all of it within one
\* clock millisecond
NextMoved ==
    \/ \E g \in Gens : Run(g)
    \/ \E dst, src \in Gens : MoveConstruct(dst, src)
    \/ \E dst, src \in Gens : MoveAssign(dst, src)
    \/ \E g \in Gens : Destroy(g)
    \/ \E g \in Gens : Next_(g)
    \/ \E g \in Gens : Begin(g)

SpecMoved == InitOwn /\ [][NextMoved]_vars

\* a consumer that holds several generators of the one controller, pulls
\* them in any order and retargets the controller in between
NextTwo ==
    \/ Tick
    \/ \E g \in Gens : Run(g)
    \/ \E g \in Gens : Next_(g)
    \/ \E s \in Setpoints : Target(s)

SpecTwo == Init /\ [][NextTwo]_vars

\* ------------------------------------------------- converging feedback
\* a feedback function whose value starts at 0 and moves ConvStep toward the
\* setpoint at every sample (the n-th sample, n invocations before it)
conv_feedback(n) ==
    IF n * ConvStep >= current_setpoint THEN current_setpoint ELSE n * ConvStep

\* one iteration of the loop of run() when the feedback function is
\* conv_feedback and neither it nor the predicate raises
conv_iteration ==
    {o \in after_sample(conv_feedback(fbCalls)) : o.k # "throw"}

\* g.next() by a consumer that pulls until it has seen the end
ConvNext(g) ==
    /\ ~crashed
    /\ alive[g]
    /\ Suspended(coro[g])
    /\ \E o \in conv_iteration :
         /\ Apply(o)
         /\ frames' = [frames EXCEPT ![coro[g]] = promise_after(@, o, "next")]
         /\ lastOp' = Op("next", g, coro[g], o.k, Result(o), o.val, FALSE)
    /\ UNCHANGED <<alive, coro, nframes, iter>>

\* the consumer drops the generator once it has seen the end
ConvDestroy(g) ==
    /\ alive[g]
    /\ StateOf(coro[g]) = "done"
    /\ Destroy(g)

\* a consumer that keeps pulling a run() generator over converging feedback
NextConv ==
    \/ Tick
    \/ \E g \in Loop : Run(g)
    \/ \E g \in Loop : ConvNext(g)
    \/ \E g \in Loop : ConvDestroy(g)

\* the consumer's loop is not suspended forever
SpecConv ==
    Init /\ [][NextConv]_vars /\ \A g \in Loop : WF_vars(ConvNext(g))

\* ---------------------------------------------------------------- claims
Pulls == {"next", "begin", "inc"}
Live(f) == frames[f].st \in {"start", "yielded", "done"}

\* the sum of a sequence of errors, and its last element (0 if there is none)
RECURSIVE SumSeq(_)
SumSeq(s) == IF s = << >> THEN 0 ELSE s[1] + SumSeq(Tail(s))
LastOf(s) == IF s = << >> THEN 0 ELSE s[Len(s)]

\* C1: creating a generator runs no producer code: a step that is a call of
\* run() leaves the feedback and predicate invocation counts and the
\* controller's setpoint, accumulated error, last error and timestamp as they
\* were, and the new frame is suspended at its start, having sampled nothing.
C1_RunRunsNoProducerCode ==
    [][lastOp'.op = "run" =>
         /\ UNCHANGED <<ctrl, fbCalls, stCalls>>
         /\ frames'[lastOp'.h].st = "start"
         /\ frames'[lastOp'.h].samples = 0
         /\ ~frames'[lastOp'.h].has_value]_vars

\* C1 witness: run() was just called on a controller whose earlier generator
\* had already sampled feedback and moved the accumulated error.
C1_Witness ==
    /\ lastOp.op = "run"
    /\ frames[lastOp.h].st = "start"
    /\ fbCalls > 0
    /\ error_accumulator # 0

\* C2: when the producer body raises instead of yielding, the next() call
\* that observes it reports end-of-sequence and surfaces that failure to its
\* caller.
C2_NextSurfacesFailure ==
    (lastOp.op = "next" /\ lastOp.k = "throw") =>
        (lastOp.res = "end" /\ lastOp.raised)

\* C3: through begin() and operator++, a captured failure is re-raised exactly
\* once, by the call that drives the frame into completion: a frame that
\* completed with a failure has raised once, one that completed because the
\* predicate settled or that is suspended has never raised, and the last
\* call raised exactly when the body threw during it.
C3_RaisedExactlyOnce ==
    /\ \A f \in Frames :
         (Live(f) /\ ~frames[f].misused) =>
            frames[f].raised =
               (IF frames[f].st = "done" /\ frames[f].exception THEN 1 ELSE 0)
    /\ (lastOp.op \in {"begin", "inc"} /\ lastOp.h # nullptr
          /\ ~frames[lastOp.h].misused /\ frames[lastOp.h].st # "destroyed") =>
            (lastOp.raised <=> lastOp.k = "throw")

\* C3 witness: begin() yielded a value, then operator++ drove the frame into
\* completion with a failure and raised it.
C3_Witness ==
    /\ lastOp.op = "inc"
    /\ lastOp.raised
    /\ lastOp.h # nullptr
    /\ frames[lastOp.h].st = "done"
    /\ frames[lastOp.h].yields = 1
    /\ frames[lastOp.h].raised = 1
    /\ ~frames[lastOp.h].misused

\* C4: a generator of run() yields exactly one output per feedback sample
\* before the first settling one and completes on the settling sample without
\* a value for it; with Kp = 1, Ki = Kd = 0 the value yielded is the error
\* (setpoint 10, feedback 0: the first pull yields 10).
C4_OneOutputPerSample ==
    /\ \A f \in Frames :
         (Live(f) /\ ~frames[f].exception /\ ~frames[f].misused) =>
            frames[f].samples =
               frames[f].yields + (IF frames[f].st = "done" THEN 1 ELSE 0)
    /\ (lastOp.k = "yield" /\ Kp = <<1, 1>> /\ Ki[1] = 0 /\ Kd[1] = 0) =>
            lastOp.val = last_error

\* the output the documented formula gives, in real arithmetic, converted to
\* the output type: Kp*error + Ki*acc*dT + Kd*(le - error)/dT
documented_output(error, acc, le, dT) ==
    pid_value(error, acc, dT, <<le - error, dT>>)

\* C5: every value yielded equals Kp*error + Ki*error_accumulator*dT +
\* Kd*(last_error - error)/dT converted to the output type, for integer-valued
\* and real-valued targets alike (stated for the pulls with dT > 0, where the
\* formula has a value).
C5_OutputFormula ==
    [][(lastOp'.op \in Pulls /\ lastOp'.k = "yield" /\ clock > last_iteration) =>
         lastOp'.val = documented_output(last_error', error_accumulator',
                                         last_error, clock - last_iteration)]_vars

\* C6: no pull computes or yields an output from a time delta that is not
\* strictly positive.
C6_PositiveDT ==
    [][(lastOp'.op \in Pulls /\ lastOp'.k \in {"yield", "div0_crash"}) =>
         clock > last_iteration]_vars

\* what the first pull on a freshly constructed controller with setpoint s
\* can yield for a feedback sample, dT after the construction
FreshFirstOutputs(s, sample, dT) ==
    LET c == Construct(s, clock - dT)
        error == c.current_setpoint - sample
        acc == c.error_accumulator + error
    IN  IF dT = 0
        THEN UBValues \cup (IF target_t = "int32"
                            THEN {pid_value(error, acc, 0, <<0, 1>>)} ELSE {})
        ELSE {pid_value(error, acc, dT, derivative(c.last_error, error, dT))}

\* C7: target(s) leaves the controller in the state the constructor gives for
\* setpoint s at that time (accumulated error 0, last error 0, timestamp now),
\* and the first output after target(s) is the first output of a freshly
\* constructed controller with setpoint s, for the same sample and the same
\* elapsed time.
C7_TargetResetsHistory ==
    [][/\ lastOp'.op = "target" =>
            ctrl' = <<Construct(current_setpoint', clock).current_setpoint,
                      Construct(current_setpoint', clock).error_accumulator,
                      Construct(current_setpoint', clock).last_error,
                      Construct(current_setpoint', clock).last_iteration>>
       /\ (lastOp'.op \in Pulls /\ lastOp'.k = "yield"
             /\ reset.by = "target" /\ history = << >>) =>
            lastOp'.val \in FreshFirstOutputs(current_setpoint,
                                              current_setpoint - last_error',
                                              clock - last_iteration)]_vars

\* C7 witness: pulls accumulated non-zero error, target() was called, and
\* the first pull after it yielded an output computed from a positive dT.
C7_Witness ==
    /\ reset.by = "target"
    /\ reset.dirty
    /\ lastOp.op = "next"
    /\ lastOp.k = "yield"
    /\ Len(history) = 1
    /\ lastOp.val \notin UBValues
    /\ lastOp.val # 0

\* C8: destroying a generator whose frame is suspended (at start or after a
\* yield) runs no producer code: the invocation counts and the controller
\* state are unchanged, and the frame is released exactly once.
C8_DestroyRunsNothing ==
    [][lastOp'.op = "destroy" =>
         /\ UNCHANGED <<ctrl, fbCalls, stCalls, history>>
         /\ (lastOp'.h # nullptr /\ frames[lastOp'.h].st \in {"start", "yielded"}) =>
               /\ frames'[lastOp'.h].st = "destroyed"
               /\ frames'[lastOp'.h].destroyed = 1]_vars

\* C8 witness: a generator was destroyed while suspended after a yield.
C8_Witness ==
    /\ lastOp.op = "destroy"
    /\ lastOp.k = "yielded"
    /\ frames[lastOp.h].destroyed = 1
    /\ fbCalls > 0

Owners(f) == {g \in Gens : alive[g] /\ coro[g] = f}

\* C9: under creation, move construction, move assignment and destruction
\* each frame is owned by at most one generator, an owned frame is not
\* destroyed, no frame is destroyed twice, and a created frame that no
\* generator owns has been destroyed exactly once (so all are, once every
\* generator is gone).
C9_UniqueOwnership ==
    \A f \in Frames :
       /\ Cardinality(Owners(f)) <= 1
       /\ frames[f].destroyed <= 1
       /\ Owners(f) # {} => (f <= nframes /\ frames[f].destroyed = 0)
       /\ (f <= nframes /\ Owners(f) = {}) => frames[f].destroyed = 1

\* C9 witness: a generator that owned a frame was assigned another
\* generator's frame; the old frame is destroyed once, the new one is owned.
C9_Witness ==
    /\ lastOp.op = "assign"
    /\ lastOp.h # nullptr
    /\ frames[lastOp.h].destroyed = 1
    /\ coro[lastOp.g] # nullptr
    /\ coro[lastOp.g] # lastOp.h

\* C10: once a frame has completed, every later next(), begin() or
\* operator++ on it reports end-of-sequence, produces no value and runs no
\* producer code.
C10_NoValueAfterCompletion ==
    [][(lastOp'.op \in Pulls /\ lastOp'.h # nullptr
          /\ frames[lastOp'.h].st = "done") =>
         /\ lastOp'.res = "end"
         /\ ~crashed'
         /\ fbCalls' = fbCalls
         /\ stCalls' = stCalls]_vars

\* C11: an iterator obtained from begin() compares equal to end() exactly
\* when its frame has finished (the body returned or raised) or it holds no
\* frame; the comparison is symmetric and != is the negation of ==; so after
\* a begin() or operator++ that returned, the iterator differs from end()
\* exactly when that call yielded a value.
C11_EndIffFinished ==
    (iter.live /\ (iter.coro = nullptr \/ frames[iter.coro].st # "destroyed")) =>
       /\ iterator_eq_sentinel(iter) <=>
             (iter.coro = nullptr \/ frames[iter.coro].by # "none")
       /\ sentinel_eq_iterator(iter) <=> iterator_eq_sentinel(iter)
       /\ iterator_ne_sentinel(iter) <=> ~iterator_eq_sentinel(iter)
       /\ sentinel_ne_iterator(iter) <=> ~sentinel_eq_iterator(iter)
       /\ (lastOp.op \in {"begin", "inc"} /\ lastOp.h = iter.coro
             /\ lastOp.h # nullptr /\ ~lastOp.raised /\ ~crashed
             /\ ~frames[lastOp.h].misused) =>
             (iterator_ne_sentinel(iter) <=> lastOp.k = "yield")

\* C11 witness: begin() yielded, operator++ then completed the frame because
\* the predicate settled: the iterator equals end() after one loop body.
C11_Witness ==
    /\ lastOp.op = "inc"
    /\ lastOp.k = "return"
    /\ iter.live
    /\ iter.coro = lastOp.h
    /\ iterator_eq_sentinel(iter)
    /\ frames[iter.coro].yields = 1

\* C12: between a successful advance and the next one, operator* returns
\* the value most recently yielded, the same at each read, runs no producer
\* code and changes no controller or generator state.
C12_PeekIsStable ==
    [][(lastOp'.op = "deref" /\ iter.coro # nullptr
          /\ frames[iter.coro].st = "yielded") =>
         /\ lastOp'.res = "value"
         /\ lastOp'.val = frames[iter.coro].current_value
         /\ (lastOp.op \in {"begin", "inc"} /\ lastOp.k = "yield"
               /\ lastOp.h = iter.coro) => lastOp'.val = lastOp.val
         /\ (lastOp.op = "deref" /\ lastOp.h = iter.coro) =>
               lastOp'.val = lastOp.val
         /\ UNCHANGED <<ctrl, fbCalls, stCalls, frames, history, iter, crashed>>]_vars

\* C12 witness: a value was yielded from a positive dT and then read.
C12_Witness ==
    /\ lastOp.op = "deref"
    /\ lastOp.k = "read"
    /\ iter.coro # nullptr
    /\ frames[iter.coro].st = "yielded"
    /\ lastOp.val = frames[iter.coro].current_value
    /\ lastOp.val \notin UBValues
    /\ lastOp.val # 0

\* C13: with a feedback value that moves toward the setpoint by a fixed
\* positive step at every sample and the predicate |error| < 2, a consumer
\* that keeps pulling a run() generator sees end-of-sequence after finitely
\* many pulls, and every pull before that one yields a value.
C13_ConvergingRunTerminates ==
    /\ [](lastOp.op = "next" => lastOp.res \in {"value", "end"})
    /\ \A g \in Loop :
         (alive[g] /\ Suspended(coro[g])) ~>
            (alive[g] /\ StateOf(coro[g]) = "done" /\ lastOp.res = "end")

\* C14: a pull whose sample satisfies the settled predicate changes none of
\* the controller's history: setpoint, accumulated error, last error and
\* last-iteration timestamp are after the pull what they were before it; the
\* predicate ran once, on that sample, and the frame completed without a value.
C14_SettlingPullKeepsHistory ==
    [][(lastOp'.op \in Pulls /\ lastOp'.k = "return") =>
         /\ UNCHANGED <<current_setpoint, error_accumulator, last_error,
                        last_iteration, history>>
         /\ fbCalls' = fbCalls + 1
         /\ stCalls' = stCalls + 1
         /\ frames'[lastOp'.h].st = "done"
         /\ frames'[lastOp'.h].yields = frames[lastOp'.h].yields]_vars

\* C14 witness: a pull yielded and accumulated a non-zero error, later than
\* the construction, and the next pull of the same generator settled.
C14_Witness ==
    /\ lastOp.op = "next"
    /\ lastOp.k = "return"
    /\ frames[lastOp.h].yields = 1
    /\ error_accumulator # 0
    /\ last_error # 0
    /\ last_iteration > 0

\* C15: each pull on a suspended generator of run() runs exactly one loop
\* iteration: the feedback function is invoked once and, with the sample it
\* returned, the predicate once; then the pull either yields exactly one value
\* and suspends there, or completes the frame; no other operation invokes the
\* feedback function or the predicate.
C15_OneIterationPerPull ==
    [][/\ (lastOp'.op \in Pulls /\ lastOp'.h # nullptr
             /\ frames[lastOp'.h].st \in {"start", "yielded"}
             /\ frames'[lastOp'.h].samples = frames[lastOp'.h].samples + 1) =>
            /\ fbCalls' = fbCalls + 1
            /\ stCalls' = stCalls + 1
            /\ \/ /\ lastOp'.k = "yield"
                  /\ frames'[lastOp'.h].st = "yielded"
                  /\ frames'[lastOp'.h].yields = frames[lastOp'.h].yields + 1
               \/ /\ frames'[lastOp'.h].st = "done"
                  /\ frames'[lastOp'.h].yields = frames[lastOp'.h].yields
       /\ lastOp'.op \notin Pulls =>
            (fbCalls' = fbCalls /\ stCalls' = stCalls)]_vars

\* C16: after a generator is moved from, by move construction or by
\* assignment into another instance, it holds no frame and the destination
\* holds the frame untouched; next() on a generator that holds no frame
\* returns false and begin() on it gives an iterator equal to end(), neither
\* runs producer code nor raises, and destroying it destroys no frame.
C16_MovedFromIsEmpty ==
    [][/\ lastOp'.op \in {"move_ctor", "assign"} =>
            \A s \in Gens \ {lastOp'.g} :
               (alive[s] /\ coro[s] # nullptr /\ coro'[lastOp'.g] = coro[s]) =>
                  /\ coro'[s] = nullptr
                  /\ frames'[coro[s]] = frames[coro[s]]
       /\ (lastOp'.op \in {"next", "begin"} /\ coro[lastOp'.g] = nullptr) =>
            /\ lastOp'.res = "end"
            /\ ~lastOp'.raised
            /\ lastOp'.op = "begin" =>
                 (iterator_eq_sentinel(iter') /\ sentinel_eq_iterator(iter'))
            /\ UNCHANGED <<ctrl, fbCalls, stCalls, frames, history, crashed>>
       /\ (lastOp'.op = "destroy" /\ coro[lastOp'.g] = nullptr) =>
            UNCHANGED <<ctrl, fbCalls, stCalls, frames, history, crashed>>]_vars

\* C16 witness: a generator suspended after a yield was moved into another
\* one, and the moved-from generator was then destroyed; the destination still
\* owns the frame, suspended where it was.
C16_Witness ==
    /\ lastOp.op = "destroy"
    /\ lastOp.h = nullptr
    /\ \E d \in Gens :
         /\ alive[d]
         /\ coro[d] # nullptr
         /\ frames[coro[d]].st = "yielded"
         /\ frames[coro[d]].destroyed = 0

\* C17: run() resets nothing: a call of run() leaves the controller's state
\* as it was, and the first pull of the new generator computes from what the
\* yielding pulls of earlier generators left behind: it adds its error to
\* their accumulated error (the sum of their errors), takes its derivative
\* from their last error, and its dT from their last timestamp.
C17_RunSharesControllerState ==
    [][/\ lastOp'.op = "run" => UNCHANGED <<ctrl, history>>
       /\ (lastOp'.op \in Pulls /\ lastOp'.h # nullptr
             /\ frames[lastOp'.h].st = "start" /\ lastOp'.k = "yield") =>
            LET error == last_error'
                dT == clock - last_iteration
            IN  /\ error_accumulator' = SumSeq(history) + error
                /\ last_iteration' = clock
                /\ dT > 0 =>
                     lastOp'.val =
                        pid_value(error, SumSeq(history) + error, dT,
                                  derivative(LastOf(history), error, dT))]_vars

\* C17 witness: a first generator yielded a non-zero error, run() was called
\* again without target() in between, and the first pull of the second
\* generator yielded an output computed from a positive dT.
C17_Witness ==
    /\ lastOp.op = "next"
    /\ lastOp.k = "yield"
    /\ lastOp.h = 2
    /\ frames[2].yields = 1
    /\ Len(history) = 2
    /\ history[1] # 0
    /\ reset.by = "ctor"
    /\ lastOp.val \notin UBValues

\* C18: in every state of the running program the accumulated error is the
\* sum of the errors of the yielding pulls since the construction or the last
\* target(), and the last error is the error of the most recent of them (0 if
\* there is none), whichever generators made the pulls and however pulls and
\* target() calls were interleaved.
C18_HistoryIsSumOfYieldedErrors ==
    ~crashed =>
       /\ error_accumulator = SumSeq(history)
       /\ last_error = LastOf(history)

\* C18 witness: two generators are suspended after a yield each, the second
\* generator's pull came first, and both errors are in the accumulated error.
C18_Witness ==
    /\ ~crashed
    /\ frames[1].st = "yielded"
    /\ frames[2].st = "yielded"
    /\ lastOp.op = "next"
    /\ lastOp.h = 1
    /\ Len(history) = 2
    /\ history[1] # 0
    /\ history[2] # 0
    /\ error_accumulator = history[1] + history[2]

\* C19: a pull during which the feedback function or the predicate raises
\* leaves the controller's setpoint, accumulated error, last error and
\* timestamp as they were before the pull, stores the failure in the
\* generator's promise, and leaves the frame completed, not suspended.
C19_RaisingPullKeepsController ==
    [][(lastOp'.op \in Pulls /\ lastOp'.k = "throw") =>
         /\ UNCHANGED <<ctrl, history>>
         /\ frames'[lastOp'.h].exception
         /\ frames'[lastOp'.h].st = "done"
         /\ coro_done(frames'[lastOp'.h])
         /\ frames'[lastOp'.h].yields = frames[lastOp'.h].yields
         /\ ~crashed']_vars

\* C19 witness: a first pull yielded and accumulated a non-zero error, and in
\* the second pull the predicate raised after the feedback sample was taken.
C19_Witness ==
    /\ lastOp.op = "next"
    /\ lastOp.k = "throw"
    /\ frames[lastOp.h].st = "done"
    /\ frames[lastOp.h].exception
    /\ frames[lastOp.h].samples = 2
    /\ frames[lastOp.h].yields = 1
    /\ stCalls = 2
    /\ error_accumulator # 0

====
